---- MODULE Spec2Model ----
(***************************************************************************)
(* Model of main.py: the /code-interpreter endpoint.  run_code executes    *)
(* the submitted code with the process-wide sys.stdout redirected to a     *)
(* StringIO, and on failure asks analyze_error_with_ai for line numbers.   *)
(* FastAPI runs a plain `def` endpoint on a thread pool, so several        *)
(* run_code calls interleave statement by statement on the shared          *)
(* sys.stdout.                                                             *)
(***************************************************************************)
EXTENDS Integers, Sequences, FiniteSets, TLC

MaxLen == 2     \* longest submission, in lines
MaxReq == 2     \* requests the service accepts in one run

ExecLine == 61  \* main.py line of exec(code)
ReadLine == 62  \* main.py line of sys.stdout.getvalue()

Threads == {"t1", "t2"}

(***************************************************************************)
(* Submitted code: one statement per line.                                 *)
(*   print : print('a')          writes "a\n" to the current sys.stdout    *)
(*   exit  : sys.exit(1)         raises SystemExit (not an Exception)      *)
(*   unset : sys.stdout = None   rebinds the process-wide stdout           *)
(*   def   : def f(): 1/0        defines a function whose body raises      *)
(*   call  : f()                 calls f; NameError when f is undefined    *)
(***************************************************************************)
Stmts == {"print", "exit", "unset", "def", "call"}

CodeRequest == UNION {[1..n -> Stmts] : n \in 0..MaxLen}

VARIABLES
    sys_stdout,   \* the process-wide sys.stdout: Orig, None or a sink id
    sinks,        \* contents of the StringIO objects, by sink id
    served,       \* number of requests accepted so far
    pc,           \* per thread: position in run_code / execute_python_code
    code,         \* per thread: request.code
    old_stdout,   \* per thread: the local old_stdout
    ip,           \* per thread: next line of the submitted code to run
    defLine,      \* per thread: line where f was defined, 0 if undefined
    outcome,      \* per thread: the dict returned by execute_python_code
    aiCalls,      \* per thread: calls of analyze_error_with_ai in this request
    aiAnswer,     \* per thread: what the AI step did in this request
    response,     \* per thread: the dict returned by run_code
    faultLine,    \* per thread: line of the submitted code that raised, 0 if none
    overlapped,   \* per thread: another execution overlapped this one
    restored      \* per thread: this request's finally block has run

vars == <<sys_stdout, sinks, served, pc, code, old_stdout, ip, defLine,
          outcome, aiCalls, aiAnswer, response, faultLine, overlapped,
          restored>>

(***************************************************************************)
(* Text.  A string is a sequence of chunks: a write to stdout, or one line *)
(* of a formatted traceback.  Line numbers appear in the text as decimal   *)
(* digits.                                                                 *)
(***************************************************************************)
RECURSIVE Digits(_)
Digits(n) == IF n < 10 THEN <<n>> ELSE Append(Digits(n \div 10), n % 10)

RECURSIVE ToInt(_)
ToInt(ds) ==
    IF Len(ds) = 0 THEN 0
    ELSE 10 * ToInt(SubSeq(ds, 1, Len(ds) - 1)) + ds[Len(ds)]

Out(s) == [kind |-> "out", text |-> s, line |-> <<>>]
Hdr == [kind |-> "hdr", text |-> "Traceback (most recent call last):", line |-> <<>>]
Frame(file, n) == [kind |-> "frame", text |-> file, line |-> Digits(n)]
Exc(name) == [kind |-> "exc", text |-> name, line |-> <<>>]

RECURSIVE UserFrames(_)
UserFrames(ls) ==
    IF ls = <<>> THEN <<>>
    ELSE <<Frame("<string>", Head(ls))>> \o UserFrames(Tail(ls))

\* traceback.format_exc() for a fault raised under exec(code), with the
\* stack of <string> lines outermost first
FormatExcUser(ls, name) ==
    <<Hdr, Frame("main.py", ExecLine)>> \o UserFrames(ls) \o <<Exc(name)>>

\* traceback.format_exc() for a fault raised by sys.stdout.getvalue()
FormatExcEngine == <<Hdr, Frame("main.py", ReadLine), Exc("AttributeError")>>

(***************************************************************************)
(* JSON values, tagged as Python tags them at run time.                    *)
(***************************************************************************)
JInt(n) == [t |-> "int", v |-> <<n>>]
JStr == [t |-> "str", v |-> <<>>]
JArr(items) == [t |-> "arr", v |-> items]

\* re.search(r'File "<string>", line (\d+)', text): does a chunk match
Matches(c) == c.kind = "frame" /\ c.text = "<string>" /\ Len(c.line) > 0

\* re.findall(...)[-1] in place of re.search: the last match, not the first
RECURSIVE SearchLast(_)
SearchLast(text) ==
    IF text = <<>> THEN <<>>
    ELSE IF Matches(text[Len(text)]) THEN <<text[Len(text)]>>
    ELSE SearchLast(SubSeq(text, 1, Len(text) - 1))

RECURSIVE Search(_)
Search(text) ==
    IF text = <<>> THEN <<>>
    ELSE IF Matches(Head(text)) THEN <<Head(text)>>
    ELSE Search(Tail(text))

\* the except branch of analyze_error_with_ai
Fallback(traceback_text) ==
    LET match == Search(traceback_text)
    IN  IF match # <<>> THEN JArr(<<JInt(ToInt(match[1].line))>>) ELSE JArr(<<>>)

(***************************************************************************)
(* What the AI step may do: raise while building the client, raise in the  *)
(* network call, or return a text.  A text is unparsable, or parses to a   *)
(* JSON value that is not an object, or to an object.                      *)
(***************************************************************************)
IntLists == {<<JInt(1)>>, <<JInt(MaxLen + 1)>>}

AiAnswers ==
    {[step |-> s, json |-> "none", key |-> FALSE, val |-> JStr] :
        s \in {"client_raises", "call_raises"}}
    \cup {[step |-> "text", json |-> j, key |-> FALSE, val |-> JStr] :
        j \in {"unparsable", "array"}}
    \cup {[step |-> "text", json |-> "object", key |-> FALSE, val |-> JStr]}
    \cup {[step |-> "text", json |-> "object", key |-> TRUE, val |-> v] :
        v \in {JStr, JArr(<<JInt(1), JStr>>)} \cup {JArr(l) : l \in IntLists}}

NoAnswer == [step |-> "not_called", json |-> "none", key |-> FALSE, val |-> JStr]

\* does the try block of analyze_error_with_ai raise
TryRaises(ans) ==
    \/ ans.step \in {"client_raises", "call_raises"}
    \/ ans.step = "text" /\ ans.json = "unparsable"        \* json.loads raises
    \/ ans.step = "text" /\ ans.json = "array"           \* a list has no .get

analyze_error_with_ai(traceback_text, ans) ==
    IF TryRaises(ans) THEN Fallback(traceback_text)
    ELSE IF ans.key THEN ans.val        \* parsed.get("error_lines", [])
    ELSE JArr(<<>>)

(***************************************************************************)
(* State                                                                   *)
(***************************************************************************)
NoOutcome == [success |-> FALSE, output |-> <<>>, set |-> FALSE]
NoResponse == [error |-> JArr(<<>>), result |-> <<>>, kind |-> "none"]

\* values of sys.stdout that are not a StringIO of this module
Orig == <<"orig", 0>>       \* the stream installed before any execution
None == <<"none", 0>>       \* Python's None

IsSink(s) == s \in DOMAIN sinks

\* a StringIO lives while sys.stdout or some old_stdout refers to it
Collect(s, refs) == [id \in (DOMAIN s) \cap refs |-> s[id]]

\* StringIO(): a fresh object
NewSink(t) ==
    <<t, CHOOSE n \in 1..(MaxReq + 1) :
            /\ <<t, n>> \notin DOMAIN sinks
            /\ \A m \in 1..(n - 1) : <<t, m>> \in DOMAIN sinks>>

InExecute(t) == pc[t] \in {"redirect", "exec", "finally", "unwind"}

Init ==
    /\ sys_stdout = Orig
    /\ sinks = << >>
    /\ served = 0
    /\ pc = [t \in Threads |-> "idle"]
    /\ code = [t \in Threads |-> << >>]
    /\ old_stdout = [t \in Threads |-> Orig]
    /\ ip = [t \in Threads |-> 1]
    /\ defLine = [t \in Threads |-> 0]
    /\ outcome = [t \in Threads |-> NoOutcome]
    /\ aiCalls = [t \in Threads |-> 0]
    /\ aiAnswer = [t \in Threads |-> NoAnswer]
    /\ response = [t \in Threads |-> NoResponse]
    /\ faultLine = [t \in Threads |-> 0]
    /\ overlapped = [t \in Threads |-> FALSE]
    /\ restored = [t \in Threads |-> FALSE]

\* run_code is entered and execute_python_code saves old_stdout (line 57)
Request(t, c) ==
    /\ pc[t] = "idle"
    /\ served < MaxReq
    /\ served' = served + 1
    /\ code' = [code EXCEPT ![t] = c]
    /\ old_stdout' = [old_stdout EXCEPT ![t] = sys_stdout]
    /\ pc' = [pc EXCEPT ![t] = "redirect"]
    /\ overlapped' = [u \in Threads |->
                        IF u = t THEN \E w \in Threads \ {t} : InExecute(w)
                        ELSE overlapped[u] \/ InExecute(u)]
    /\ UNCHANGED <<sys_stdout, sinks, ip, defLine, outcome, aiCalls, aiAnswer,
                   response, faultLine, restored>>

\* sys.stdout = StringIO() (line 58)
Redirect(t) ==
    /\ pc[t] = "redirect"
    /\ LET id == NewSink(t)
       IN  /\ sys_stdout' = id
           /\ sinks' = Collect((id :> << >>) @@ sinks,
                               {id} \cup {old_stdout[u] : u \in Threads})
    /\ pc' = [pc EXCEPT ![t] = "exec"]
    /\ UNCHANGED <<served, code, old_stdout, ip, defLine, outcome, aiCalls,
                   aiAnswer, response, faultLine, overlapped, restored>>

\* the statement the thread is about to run under exec(code) (line 61)
AtStmt(t, kind) ==
    /\ pc[t] = "exec"
    /\ ip[t] <= Len(code[t])
    /\ code[t][ip[t]] = kind

\* an except branch that prepends the captured stdout to the trace
CaughtKeepingStdout(t, trace, line) ==
    /\ outcome' = [outcome EXCEPT ![t] =
                     [success |-> FALSE,
                      output |-> (IF IsSink(sys_stdout) THEN sinks[sys_stdout] ELSE <<>>)
                                 \o trace,
                      set |-> TRUE]]
    /\ faultLine' = [faultLine EXCEPT ![t] = line]
    /\ pc' = [pc EXCEPT ![t] = "finally"]

\* the except Exception branch (lines 65-67), then on to the finally block
Caught(t, trace, line) ==
    /\ outcome' = [outcome EXCEPT ![t] =
                     [success |-> FALSE, output |-> trace, set |-> TRUE]]
    /\ faultLine' = [faultLine EXCEPT ![t] = line]
    /\ pc' = [pc EXCEPT ![t] = "finally"]

\* print('a'): a write to whatever sys.stdout is now; print does nothing
\* when sys.stdout is None, and Orig is the real terminal
ExecPrint(t) ==
    /\ AtStmt(t, "print")
    /\ sinks' = IF IsSink(sys_stdout)
                THEN [sinks EXCEPT ![sys_stdout] = Append(@, Out("a\n"))]
                ELSE sinks
    /\ ip' = [ip EXCEPT ![t] = @ + 1]
    /\ UNCHANGED <<sys_stdout, served, pc, code, old_stdout, defLine, outcome,
                   aiCalls, aiAnswer, response, faultLine, overlapped, restored>>

\* sys.exit(1): SystemExit is not an Exception, the except clause of line 65
\* does not match and the fault unwinds through the finally block
ExecExit(t) ==
    /\ AtStmt(t, "exit")
    /\ faultLine' = [faultLine EXCEPT ![t] = ip[t]]
    /\ pc' = [pc EXCEPT ![t] = "unwind"]
    /\ UNCHANGED <<sys_stdout, sinks, served, code, old_stdout, ip, defLine,
                   outcome, aiCalls, aiAnswer, response, overlapped, restored>>

\* sys.stdout = None: exec(code) runs in the module's globals, sys included
ExecUnset(t) ==
    /\ AtStmt(t, "unset")
    /\ sys_stdout' = None
    /\ sinks' = Collect(sinks, {old_stdout[u] : u \in Threads})
    /\ ip' = [ip EXCEPT ![t] = @ + 1]
    /\ UNCHANGED <<served, pc, code, old_stdout, defLine, outcome,
                   aiCalls, aiAnswer, response, faultLine, overlapped, restored>>

\* def f(): 1/0
ExecDef(t) ==
    /\ AtStmt(t, "def")
    /\ defLine' = [defLine EXCEPT ![t] = ip[t]]
    /\ ip' = [ip EXCEPT ![t] = @ + 1]
    /\ UNCHANGED <<sys_stdout, sinks, served, pc, code, old_stdout, outcome,
                   aiCalls, aiAnswer, response, faultLine, overlapped, restored>>

\* f()
ExecCall(t) ==
    /\ AtStmt(t, "call")
    /\ IF defLine[t] # 0
       THEN Caught(t, FormatExcUser(<<ip[t], defLine[t]>>, "ZeroDivisionError"), ip[t])
       ELSE Caught(t, FormatExcUser(<<ip[t]>>, "NameError"), ip[t])
    /\ UNCHANGED <<sys_stdout, sinks, served, code, old_stdout, ip, defLine,
                   aiCalls, aiAnswer, response, overlapped, restored>>

\* output = sys.stdout.getvalue(); return (lines 62-63).  The read goes
\* through the global: only a StringIO has getvalue, anything else raises
\* AttributeError inside the try block.
GetValue(t) ==
    /\ pc[t] = "exec"
    /\ ip[t] > Len(code[t])
    /\ IF IsSink(sys_stdout)
       THEN /\ outcome' = [outcome EXCEPT ![t] =
                   [success |-> TRUE, output |-> sinks[sys_stdout], set |-> TRUE]]
            /\ pc' = [pc EXCEPT ![t] = "finally"]
            /\ UNCHANGED faultLine
       ELSE Caught(t, FormatExcEngine, 0)
    /\ UNCHANGED <<sys_stdout, sinks, served, code, old_stdout, ip, defLine,
                   aiCalls, aiAnswer, response, overlapped, restored>>

\* a run_code that asks the AI after every execution
AlwaysAI(o) == TRUE

\* run_code calls analyze_error_with_ai exactly when the execution failed
NeedsAI(o) == ~o.success

\* sys.stdout = old_stdout (line 70); the local old_stdout dies with the
\* frame of execute_python_code
Restore(t) ==
    /\ sys_stdout' = old_stdout[t]
    /\ old_stdout' = [old_stdout EXCEPT ![t] = Orig]
    /\ sinks' = Collect(sinks, {old_stdout[u] : u \in Threads})
    /\ restored' = [restored EXCEPT ![t] = TRUE]

\* finally: sys.stdout = old_stdout (line 70), then back in run_code the
\* test of execution["success"] (line 151)
Finally(t) ==
    /\ pc[t] = "finally"
    /\ Restore(t)
    /\ pc' = [pc EXCEPT ![t] = IF NeedsAI(outcome[t]) THEN "analyze" ELSE "reply"]
    /\ UNCHANGED <<served, code, ip, defLine, outcome,
                   aiCalls, aiAnswer, response, faultLine, overlapped>>

\* the same finally block while SystemExit unwinds; the fault then leaves
\* execute_python_code and run_code, and no response dict is built
Unwind(t) ==
    /\ pc[t] = "unwind"
    /\ Restore(t)
    /\ response' = [response EXCEPT ![t] =
                      [error |-> JArr(<<>>), result |-> <<>>, kind |-> "propagated"]]
    /\ pc' = [pc EXCEPT ![t] = "done"]
    /\ UNCHANGED <<served, code, ip, defLine, outcome,
                   aiCalls, aiAnswer, faultLine, overlapped>>

\* run_code, success branch (lines 151-155)
Reply(t) ==
    /\ pc[t] = "reply"
    /\ response' = [response EXCEPT ![t] =
                      [error |-> JArr(<<>>), result |-> outcome[t].output,
                       kind |-> "returned"]]
    /\ pc' = [pc EXCEPT ![t] = "done"]
    /\ UNCHANGED <<sys_stdout, sinks, served, code, old_stdout, ip, defLine,
                   outcome, aiCalls, aiAnswer, faultLine, overlapped, restored>>

\* run_code, failure branch (lines 158-167)
Analyze(t, ans) ==
    /\ pc[t] = "analyze"
    /\ aiCalls' = [aiCalls EXCEPT ![t] = @ + 1]
    /\ aiAnswer' = [aiAnswer EXCEPT ![t] = ans]
    /\ response' = [response EXCEPT ![t] =
                      [error |-> analyze_error_with_ai(outcome[t].output, ans),
                       result |-> outcome[t].output,
                       kind |-> "returned"]]
    /\ pc' = [pc EXCEPT ![t] = "done"]
    /\ UNCHANGED <<sys_stdout, sinks, served, code, old_stdout, ip, defLine,
                   outcome, faultLine, overlapped, restored>>

\* the response leaves run_code and the request's locals are discarded
Return(t) ==
    /\ pc[t] = "done"
    /\ pc' = [pc EXCEPT ![t] = "idle"]
    /\ code' = [code EXCEPT ![t] = << >>]
    /\ ip' = [ip EXCEPT ![t] = 1]
    /\ defLine' = [defLine EXCEPT ![t] = 0]
    /\ outcome' = [outcome EXCEPT ![t] = NoOutcome]
    /\ aiCalls' = [aiCalls EXCEPT ![t] = 0]
    /\ aiAnswer' = [aiAnswer EXCEPT ![t] = NoAnswer]
    /\ response' = [response EXCEPT ![t] = NoResponse]
    /\ faultLine' = [faultLine EXCEPT ![t] = 0]
    /\ overlapped' = [overlapped EXCEPT ![t] = FALSE]
    /\ restored' = [restored EXCEPT ![t] = FALSE]
    /\ UNCHANGED <<sys_stdout, sinks, served, old_stdout>>

\* what one thread may do next, the accepting of a request apart
Step(t) ==
    \/ Redirect(t)
    \/ ExecPrint(t)
    \/ ExecExit(t)
    \/ ExecUnset(t)
    \/ ExecDef(t)
    \/ ExecCall(t)
    \/ GetValue(t)
    \/ Finally(t)
    \/ Unwind(t)
    \/ Reply(t)
    \/ \E ans \in AiAnswers : Analyze(t, ans)
    \/ Return(t)

\* the thread pool: a request is accepted whenever a thread is free
Next ==
    \E t \in Threads :
        \/ \E c \in CodeRequest : Request(t, c)
        \/ Step(t)

Spec == Init /\ [][Next]_vars

\* one request at a time: a request is accepted only when no other is in
\* flight (a single-worker deployment)
RequestAlone(t, c) ==
    /\ \A u \in Threads \ {t} : pc[u] = "idle"
    /\ Request(t, c)

NextSeq ==
    \E t \in Threads :
        \/ \E c \in CodeRequest : RequestAlone(t, c)
        \/ Step(t)

SpecSeq == Init /\ [][NextSeq]_vars

(***************************************************************************)
(* Vocabulary of the properties                                            *)
(***************************************************************************)
\* run_code has built its response dict for thread t
Returned(t) == pc[t] = "done" /\ response[t].kind = "returned"

\* the text a submission writes: one "a\n" per print statement, in order
Writes(c) ==
    [i \in 1..Cardinality({k \in DOMAIN c : c[k] = "print"}) |-> Out("a\n")]

\* no statement of the submission raises
RaisesNoFault(c) == \A k \in DOMAIN c : c[k] \notin {"exit", "call"}

\* positions of the references File "<string>", line N in a text
StringRefs(text) ==
    {i \in DOMAIN text : text[i].kind = "frame" /\ text[i].text = "<string>"}

EarliestRef(text) ==
    CHOOSE i \in StringRefs(text) : \A j \in StringRefs(text) : i <= j

\* e is a sequence whose entries are all integers
IsIntList(e) == e.t = "arr" /\ \A i \in DOMAIN e.v : e.v[i].t = "int"

\* e is [N] for the number N written in the earliest reference of the
\* text, or [] when the text holds no reference
IsFallbackOf(e, text) ==
    /\ e.t = "arr"
    /\ IF StringRefs(text) = {}
       THEN Len(e.v) = 0
       ELSE /\ Len(e.v) = 1
            /\ e.v[1].t = "int"
            /\ Digits(e.v[1].v[1]) = text[EarliestRef(text)].line

\* the AI step failed: no client, no answer, or a text that does not parse
\* to a JSON object
AiStepFailed(ans) == ans.step \in {"client_raises", "call_raises"}
                     \/ (ans.step = "text" /\ ans.json # "object")

\* the returned text has the shape {error_lines: [int, ...]}
HasShape(ans) ==
    ans.step = "text" /\ ans.json = "object" /\ ans.key /\ IsIntList(ans.val)

(***************************************************************************)
(* C1: a submission that writes text T and raises no fault, handled while  *)
(* no other execution overlaps it, gets exactly {error: [], result: T}.    *)
(***************************************************************************)
C1_ExactOutput ==
    \A t \in Threads :
        (pc[t] = "done" /\ ~overlapped[t] /\ RaisesNoFault(code[t]))
            => /\ response[t].kind = "returned"
               /\ response[t].result = Writes(code[t])
               /\ response[t].error = JArr(<<>>)

(***************************************************************************)
(* C2: execute_python_code never propagates a fault: every call ends with  *)
(* an outcome dict, whatever the submitted code raises.                    *)
(***************************************************************************)
C2_NeverPropagates ==
    \A t \in Threads : pc[t] = "done" => (outcome[t].set /\ response[t].kind = "returned")

C4_StdoutRestored ==
    (\A t \in Threads : ~InExecute(t)) => sys_stdout = Orig

(***************************************************************************)
(* C5: under concurrency every successful request's result is exactly the  *)
(* text its own submission wrote.                                          *)
(***************************************************************************)
C5_IsolatedCapture ==
    \A t \in Threads :
        (Returned(t) /\ outcome[t].success)
            => response[t].result = Writes(code[t])

(***************************************************************************)
(* C6: an answer that does not have the shape {error_lines: [int, ...]}    *)
(* counts as a failed AI step, so the fallback result is used and the      *)
(* error field of every response is a sequence of integers.                *)
(***************************************************************************)
C6_AnswerValidated ==
    \A t \in Threads :
        Returned(t)
            => /\ IsIntList(response[t].error)
               /\ (aiCalls[t] = 1 /\ ~HasShape(aiAnswer[t]))
                     => IsFallbackOf(response[t].error, outcome[t].output)

(***************************************************************************)
(* C7: every failure outcome is non-empty and holds at least one reference *)
(* File "<string>", line N.                                                *)
(***************************************************************************)
C7_TraceHasReference ==
    \A t \in Threads :
        (outcome[t].set /\ ~outcome[t].success)
            => /\ outcome[t].output # <<>>
               /\ StringRefs(outcome[t].output) # {}

(***************************************************************************)
(* C8: for a faulting submission and any answer of the AI, the integers of *)
(* the error field lie between 1 and the number of lines of the code, and  *)
(* there are no more of them than lines.  (That the field is a sequence of *)
(* integers at all is C6; here the answers that are one are looked at.)    *)
(***************************************************************************)
C8_LinesInRange ==
    \A t \in Threads :
        (Returned(t) /\ ~outcome[t].success /\ IsIntList(response[t].error))
            => /\ Len(response[t].error.v) <= Len(code[t])
               /\ \A i \in DOMAIN response[t].error.v :
                     response[t].error.v[i].v[1] \in 1..Len(code[t])

(***************************************************************************)
(* C9: when a submission writes text and then raises, the result holds the *)
(* text written before the fault together with the trace.                  *)
(***************************************************************************)
C9_StdoutKept ==
    \A t \in Threads :
        (Returned(t) /\ faultLine[t] > 0
            /\ \E k \in 1..(faultLine[t] - 1) : code[t][k] = "print")
            => \E i \in DOMAIN response[t].result : response[t].result[i].kind = "out"

(***************************************************************************)
(* C9 as amended: when a submission raises a fault that is caught, the     *)
(* result is the formatted trace alone, header first and exception last,   *)
(* with no text written to stdout in it; for print('a') followed by an     *)
(* undefined name the fallback error is [2].                               *)
(***************************************************************************)
C9_TraceOnly ==
    \A t \in Threads :
        (Returned(t) /\ ~outcome[t].success)
            => LET r == response[t].result
               IN  /\ Len(r) >= 3
                   /\ r[1] = Hdr
                   /\ r[Len(r)].kind = "exc"
                   /\ \A i \in DOMAIN r : r[i].kind # "out"
                   /\ (code[t] = <<"print", "call">> /\ AiStepFailed(aiAnswer[t]))
                         => response[t].error = JArr(<<JInt(2)>>)

\* print('a') then an undefined name, answered through the fallback
C9_Witness ==
    \E t \in Threads :
        /\ Returned(t)
        /\ code[t] = <<"print", "call">>
        /\ AiStepFailed(aiAnswer[t])
        /\ response[t].error = JArr(<<JInt(2)>>)
        /\ response[t].result = FormatExcUser(<<2>>, "NameError")

====
